---------------------------- MODULE Spec2Model ----------------------------
(***************************************************************************)
(* Model of src/love.cpp: the LOVE launcher built on the SDL3 main         *)
(* callbacks (SDL_AppInit, SDL_AppIterate, SDL_AppEvent, SDL_AppQuit).     *)
(*                                                                         *)
(* C strings are sequences of one-character strings, so that strcmp and    *)
(* strncmp are computed character by character as the C library does.      *)
(***************************************************************************)
EXTENDS Integers, Sequences, FiniteSets, TLC

(***************************************************************************)
(* Bounds of the model.                                                    *)
(***************************************************************************)
\* longest argument vector the host hands to SDL_AppInit
MaxArgc == 3
\* SDL_AppIterate calls in one process
MaxIter == 2
\* SDL_AppInit calls in one process (1 + number of restarts)
MaxCycles == 2
\* values a single yield may leave on the stack
MaxNres == 1

(***************************************************************************)
(* String literals of the source and the argument strings of the model.    *)
(***************************************************************************)
S_love == <<"l", "o", "v", "e">>
S_version == <<"-", "-", "v", "e", "r", "s", "i", "o", "n">>
S_help == <<"-", "-", "h", "e", "l", "p">>
S_fused == <<"-", "-", "f", "u", "s", "e", "d">>
S_psn_prefix == <<"-", "p", "s", "n", "_">>
S_embedded == <<"e", "m", "b", "e", "d", "d", "e", "d", " ",
                "b", "o", "o", "t", ".", "l", "u", "a">>
\* a launcher-injected process serial number argument
S_psn == <<"-", "p", "s", "n", "_", "7">>
\* four characters of the prefix only: not a -psn_ argument
S_psn_short == <<"-", "p", "s", "n">>
S_game == <<"g">>
\* a .love file found in love.app/Contents/Resources
S_resources == <<"r", ".", "l", "o", "v", "e">>
\* a file dropped on the application icon
S_dropped == <<"d", ".", "l", "o", "v", "e">>
EmptyString == <<>>

LOVE_VERSION_STRING == <<"1", "2", ".", "0">>
\* what love_version() of the loaded library may report
LibVersions == {LOVE_VERSION_STRING, <<"1", "1", ".", "5">>}

\* argv[0] candidates and user argument candidates
ExeStrings == {S_love, S_psn}
UserStrings == {S_version, S_help, S_psn, S_psn_short, S_game}

RECURSIVE ArgVectors(_)
ArgVectors(n) ==
    IF n = 1 THEN {<<e>> : e \in ExeStrings}
    ELSE ArgVectors(n - 1)
         \cup {Append(v, u) : v \in {w \in ArgVectors(n - 1) : Len(w) = n - 1},
                              u \in UserStrings}

\* the argument vectors (argc >= 1) the host may pass
HostArgvs == ArgVectors(MaxArgc)

\* the invocations followed through whole application lifecycles
LifecycleArgvs ==
    {<<S_love>>, <<S_love, S_game>>, <<S_love, S_help>>,
     <<S_love, S_psn, S_game>>}

(***************************************************************************)
(* C library functions used by the source.                                 *)
(***************************************************************************)
NUL == "\\0"

\* s[i] of a NUL-terminated string, i counted from 0
CharAt(s, i) == IF i < Len(s) THEN s[i + 1] ELSE NUL

\* strcmp: 0 when equal; the source only tests the result against 0
strcmp(a, b) ==
    IF \A i \in 0..(IF Len(a) > Len(b) THEN Len(a) ELSE Len(b)) :
           CharAt(a, i) = CharAt(b, i)
    THEN 0 ELSE 1

\* strncmp: compares at most n characters, stopping after a NUL
strncmp(a, b, n) ==
    IF \A i \in 0..(n - 1) :
           \/ CharAt(a, i) = CharAt(b, i)
           \/ \E j \in 0..(i - 1) : CharAt(a, j) = NUL /\ CharAt(b, j) = NUL
    THEN 0 ELSE 1

\* argv[i] of the C array, i counted from 0
At(argv, i) == argv[i + 1]

SDL_APP_CONTINUE == "SDL_APP_CONTINUE"
SDL_APP_SUCCESS == "SDL_APP_SUCCESS"
SDL_APP_FAILURE == "SDL_APP_FAILURE"

LUA_OK == "LUA_OK"
LUA_YIELD == "LUA_YIELD"
LUA_ERRRUN == "LUA_ERRRUN"


(***************************************************************************)
(* get_app_arguments (only compiled with LOVE_LEGENDARY_APP_ARGV_HACK).    *)
(***************************************************************************)
Platforms == {"macos", "ios", "other"}

\* faulty variant of copy_argv: only the first user argument is tested
RECURSIVE copy_argv_first_only(_, _, _)
copy_argv_first_only(argc, argv, i) ==
    IF i >= argc THEN <<>>
    ELSE (IF i # 1 \/ strncmp(At(argv, i), S_psn_prefix, 5) # 0
          THEN <<At(argv, i)>> ELSE <<>>)
         \o copy_argv_first_only(argc, argv, i + 1)

\* the loop that copies argv into temp_argv, from index i on
RECURSIVE copy_argv(_, _, _)
copy_argv(argc, argv, i) ==
    IF i >= argc THEN <<>>
    ELSE (IF i = 0 \/ strncmp(At(argv, i), S_psn_prefix, 5) # 0
          THEN <<At(argv, i)>> ELSE <<>>)
         \o copy_argv(argc, argv, i + 1)

\* faulty variant of vector_insert: inserts at it instead of it + 1
vector_insert_early(v, pos, x) ==
    SubSeq(v, 1, pos - 1) \o <<x>> \o SubSeq(v, pos, Len(v))

\* std::vector::insert(begin() + pos, x)
vector_insert(v, pos, x) ==
    SubSeq(v, 1, pos) \o <<x>> \o SubSeq(v, pos + 1, Len(v))

\* what love::macos::getLoveInResources() / love::ios::getLoveInResources(fused)
\* may yield on the platform: the path found and the value of fused afterwards
ResourceLookups(plat) ==
    CASE plat = "macos" -> {[path |-> p, fused |-> TRUE]
                             : p \in {EmptyString, S_resources}}
      [] plat = "ios" -> {[path |-> p, fused |-> f]
                           : p \in {EmptyString, S_resources}, f \in BOOLEAN}
      [] OTHER -> {[path |-> EmptyString, fused |-> TRUE]}

\* whether control reaches the declaration of the static dropfilestr
reaches_dropfile(plat, loveResourcesPath, tty) ==
    loveResourcesPath = EmptyString /\ plat = "macos" /\ ~tty

\* faulty variant of runs_checkDropEvents: dropfilestr is not static
runs_checkDropEvents_always(reaches, initialised) == reaches

\* whether the initialiser of the static dropfilestr, checkDropEvents(), is
\* run: the first time control passes through the declaration
runs_checkDropEvents(reaches, initialised) == reaches /\ ~initialised

\* the rewritten vector; dropstr is the value of the static dropfilestr once
\* its declaration has been passed
get_app_arguments(argc, argv, plat, loveResourcesPath, fused, tty, dropstr) ==
    LET temp_argv == copy_argv(argc, argv, 0)
    IN  IF loveResourcesPath # EmptyString
        THEN LET t1 == vector_insert(temp_argv, 1, loveResourcesPath)
             IN  IF fused THEN vector_insert(t1, 2, S_fused) ELSE t1
        ELSE IF reaches_dropfile(plat, loveResourcesPath, tty)
                  /\ dropstr # EmptyString
             THEN vector_insert(temp_argv, 1, dropstr)
             ELSE temp_argv

(***************************************************************************)
(* The global table "arg" built by SDL_AppInit.                            *)
(***************************************************************************)
\* lua_newtable
lua_newtable == [j \in {} |-> EmptyString]

\* lua_rawseti(L, t, i) with the value v on top of the stack
lua_rawseti(t, i, v) ==
    [j \in (DOMAIN t) \cup {i} |-> IF j = i THEN v ELSE t[j]]

\* the loop storing argv[i] at index i, from index i on
RECURSIVE push_user_args(_, _, _, _)
push_user_args(t, argc, argv, i) ==
    IF i >= argc THEN t
    ELSE push_user_args(lua_rawseti(t, i, At(argv, i)), argc, argv, i + 1)

\* faulty variant of arg_table: argv[0] stored at index 0, like stand-alone Lua
arg_table_standalone(argc, argv) ==
    LET t1 == lua_rawseti(lua_newtable, -1, S_embedded)
    IN  push_user_args(t1, argc, argv, 0)

arg_table(argc, argv) ==
    LET t1 == IF argc > 0
              THEN lua_rawseti(lua_newtable, -2, At(argv, 0))
              ELSE lua_newtable
        t2 == lua_rawseti(t1, -1, S_embedded)
    IN  push_user_args(t2, argc, argv, 1)

(***************************************************************************)
(* State.                                                                  *)
(***************************************************************************)
VARIABLES
    \* the build and the process: fixed while the process runs
    platform,       \* LOVE_MACOS / LOVE_IOS / neither
    argv_hack,      \* LOVE_LEGENDARY_APP_ARGV_HACK defined
    lua504,         \* LUA_VERSION_NUM >= 504
    lib_version,    \* what love_version() returns
    host_argv,      \* the argument vector the host owns
    \* the host scheduler
    phase,          \* "start", "running", "stopped", "exited", "quit", "crashed"
    appstate,       \* the host's state pointer: 0 is NULL, else a block id
    cycles,         \* SDL_AppInit calls so far
    lastcall,       \* the callback that returned last
    result,         \* its SDL_AppResult
    \* struct app_globals and the interpreter
    heap_g,         \* the state block: "none", "live", "freed"
    g_id,           \* its id
    g_L,            \* g->L: 0 is NULL, else an interpreter id
    g_stackpos,     \* g->stackpos, -1 while not assigned
    L_state,        \* the interpreter: "none", "open", "closed"
    L_id,           \* its id
    lua_top,        \* lua_gettop(L)
    arg,            \* the global "arg", or NoTable
    love_exe,       \* love._exe
    love_restart,   \* love.restart
    co,             \* the entry coroutine: "none", "created", "suspended",
                    \* "completed", "failed"
    \* get_app_arguments
    hack_argv,      \* the rewritten vector of the last SDL_AppInit
    hack_heap,      \* its allocation: "none", "live", "freed"
    dropfile_init,  \* the static dropfilestr has been initialised
    dropfilestr,    \* its value
    drop_queries,   \* checkDropEvents() executions
    hack_env,       \* what the platform answered the last get_app_arguments
    \* what the callbacks did
    initlog,        \* steps of the last SDL_AppInit, in order
    quitlog,        \* steps of the last SDL_AppQuit, in order
    fault,          \* "none", or the memory error a callback ran into
    iterates,       \* SDL_AppIterate calls
    resumes,        \* luax_resume calls
    closes,         \* lua_close calls on the current interpreter
    frees,          \* free calls on the current state block
    resume_status,  \* status of the last luax_resume
    resume_nres,    \* values it left on the stack
    \* the entry script
    restart_request \* the value it handed over for the run after a restart

buildvars == <<platform, argv_hack, lua504, lib_version, host_argv>>
hostvars == <<phase, appstate, cycles, lastcall, result>>
memvars == <<heap_g, g_id, g_L, g_stackpos, L_state, L_id, closes, frees>>
luavars == <<lua_top, arg, love_exe, love_restart, co>>
argvars == <<hack_argv, hack_heap, dropfile_init, dropfilestr, drop_queries,
             hack_env>>
logvars == <<initlog, quitlog, fault, iterates, resumes, resume_status,
             resume_nres>>
scriptvars == <<restart_request>>
vars == <<buildvars, hostvars, memvars, luavars, argvars, logvars, scriptvars>>

\* no table: a value that is no table SDL_AppInit can build
NoTable == <<"nil">>
NoValue == "nil"

\* the platform was not asked: no bundle path, standard input a terminal
NoAnswers == [path |-> EmptyString, tty |-> TRUE]

\* the state at process start, for an invocation among argvs
Start(argvs) ==
    /\ platform \in Platforms
    /\ argv_hack \in BOOLEAN
    /\ lib_version \in LibVersions
    /\ host_argv \in argvs
    /\ phase = "start"
    /\ appstate = 0
    /\ cycles = 0
    /\ lastcall = "none"
    /\ result = "none"
    /\ heap_g = "none"
    /\ g_id = 0
    /\ g_L = 0
    /\ g_stackpos = -1
    /\ L_state = "none"
    /\ L_id = 0
    /\ lua_top = 0
    /\ arg = NoTable
    /\ love_exe = NoValue
    /\ love_restart = NoValue
    /\ co = "none"
    /\ hack_argv = <<>>
    /\ hack_heap = "none"
    /\ dropfile_init = FALSE
    /\ dropfilestr = EmptyString
    /\ drop_queries = 0
    /\ hack_env = NoAnswers
    /\ initlog = <<>>
    /\ quitlog = <<>>
    /\ fault = "none"
    /\ iterates = 0
    /\ resumes = 0
    /\ closes = 0
    /\ frees = 0
    /\ resume_status = "none"
    /\ resume_nres = 0
    /\ restart_request = NoValue

Init == Start(LifecycleArgvs) /\ lua504 \in BOOLEAN

(***************************************************************************)
(* SDL_AppInit.                                                            *)
(***************************************************************************)
\* faulty variant of init_path: the flags are looked at before the versions
init_path_flags_first(binary, library, argc, argv) ==
    IF argc > 1 /\ strcmp(At(argv, 1), S_version) = 0 THEN "version"
    ELSE IF argc > 1 /\ strcmp(At(argv, 1), S_help) = 0 THEN "help"
    ELSE IF strcmp(binary, library) # 0 THEN "mismatch"
    ELSE "bootstrap"

\* faulty variant of init_path: --help is not recognised
init_path_no_help(binary, library, argc, argv) ==
    IF strcmp(binary, library) # 0 THEN "mismatch"
    ELSE IF argc > 1 /\ strcmp(At(argv, 1), S_version) = 0 THEN "version"
    ELSE "bootstrap"

\* faulty variant of init_path: the flags are recognised at any position
init_path_any_position(binary, library, argc, argv) ==
    IF strcmp(binary, library) # 0 THEN "mismatch"
    ELSE IF \E i \in 1..(argc - 1) : strcmp(At(argv, i), S_version) = 0
         THEN "version"
    ELSE IF \E i \in 1..(argc - 1) : strcmp(At(argv, i), S_help) = 0
         THEN "help"
    ELSE "bootstrap"

\* the branch SDL_AppInit takes: the tests before the first allocation
init_path(binary, library, argc, argv) ==
    IF strcmp(binary, library) # 0 THEN "mismatch"
    ELSE IF argc > 1 /\ strcmp(At(argv, 1), S_version) = 0 THEN "version"
    ELSE IF argc > 1 /\ strcmp(At(argv, 1), S_help) = 0 THEN "help"
    ELSE "bootstrap"

\* faulty variant of bootstrap_steps: get_app_arguments is called first
bootstrap_steps_hack_first(hack, plat) ==
    <<"malloc", "luaL_newstate", "g->L = L", "luaL_openlibs">>
    \o (IF hack THEN <<"get_app_arguments">> ELSE <<>>)
    \o <<"preload love.jitsetup", "require love.jitsetup",
         "preload love", "arg", "require love", "love._exe", "love.restart",
         "clear restartvalue", "lua_pop", "require love.boot",
         "lua_newthread", "lua_pushvalue", "g->stackpos">>
    \o (IF hack /\ plat # "ios" THEN <<"delete hack_argv">> ELSE <<>>)
    \o <<"*appstate = g">>

\* the statements of the bootstrap, in program order
bootstrap_steps(hack, plat) ==
    <<"malloc", "luaL_newstate", "g->L = L", "luaL_openlibs",
      "preload love.jitsetup", "require love.jitsetup">>
    \o (IF hack THEN <<"get_app_arguments">> ELSE <<>>)
    \o <<"preload love", "arg", "require love", "love._exe", "love.restart",
         "clear restartvalue", "lua_pop", "require love.boot",
         "lua_newthread", "lua_pushvalue", "g->stackpos">>
    \o (IF hack /\ plat # "ios" THEN <<"delete hack_argv">> ELSE <<>>)
    \o <<"*appstate = g">>

\* what can go wrong below SDL_AppInit: an allocation returning NULL, or an
\* error raised inside an unprotected lua_call
InitFailures ==
    {"none", "malloc", "luaL_newstate", "require love.jitsetup",
     "require love", "require love.boot"}

\* the statement at which the process dies: a NULL g is first dereferenced
\* by g->L = L, a NULL L first by luaL_openlibs; an unprotected Lua error
\* ends in the panic handler
crash_step(f) ==
    CASE f = "malloc" -> "g->L = L"
      [] f = "luaL_newstate" -> "luaL_openlibs"
      [] OTHER -> f

IndexOf(steps, x) == CHOOSE i \in 1..Len(steps) : steps[i] = x

Occurs(steps, x) == \E i \in 1..Len(steps) : steps[i] = x

\* the statements reached, the dying one included
executed(steps, f) ==
    IF f = "none" THEN steps
    ELSE SubSeq(steps, 1, IndexOf(steps, crash_step(f)))

\* the statements that ran to their end
completed(steps, f) ==
    IF f = "none" THEN steps
    ELSE SubSeq(steps, 1, IndexOf(steps, crash_step(f)) - 1)

\* the change of lua_gettop(L) a statement leaves behind
stack_effect(step) ==
    CASE step \in {"require love", "require love.boot", "lua_newthread",
                   "lua_pushvalue"} -> 1
      [] step = "lua_pop" -> -1
      [] OTHER -> 0

RECURSIVE stack_after(_)
stack_after(steps) ==
    IF steps = <<>> THEN 0
    ELSE stack_after(SubSeq(steps, 1, Len(steps) - 1))
         + stack_effect(steps[Len(steps)])

\* love::Variant restartvalue is a local of SDL_AppInit, default-constructed
restartvalue == NoValue

\* The returns before the first allocation. The host passes a slot that holds
\* NULL (appstate = 0) to every SDL_AppInit; these paths never write it.
InitEarlyExit(path) ==
    /\ phase' = "exited"
    /\ appstate' = 0
    /\ result' = (IF path = "mismatch" THEN SDL_APP_FAILURE ELSE SDL_APP_SUCCESS)
    /\ initlog' = <<"version gate">>
                  \o (CASE path = "mismatch" -> <<"printf mismatch">>
                        [] path = "version" -> <<"printf version">>
                        [] OTHER -> <<"print_usage">>)
    /\ fault' = "none"
    /\ UNCHANGED <<memvars, luavars, argvars, quitlog, resume_status,
                   resume_nres>>

\* The bootstrap, ended by failure f or run to its return; look, tty and drop
\* are the answers of the platform to get_app_arguments.
InitBootstrap(f, look, tty, drop) ==
    LET steps == bootstrap_steps(argv_hack, platform)
        done == completed(steps, f)
        id == cycles + 1
        has_g == Occurs(done, "malloc") /\ f # "malloc"
        has_L == Occurs(done, "luaL_newstate") /\ f # "luaL_newstate"
        ran_hack == Occurs(done, "get_app_arguments")
        reaches == ran_hack /\ reaches_dropfile(platform, look.path, tty)
        dropstr == IF runs_checkDropEvents(reaches, dropfile_init)
                   THEN drop ELSE dropfilestr
        new_argv == IF ran_hack
                    THEN get_app_arguments(Len(host_argv), host_argv, platform,
                                           look.path, look.fused, tty, dropstr)
                    ELSE host_argv
    IN  /\ phase' = (IF f = "none" THEN "running" ELSE "crashed")
        /\ result' = (IF f = "none" THEN SDL_APP_CONTINUE ELSE "none")
        /\ appstate' = (IF Occurs(done, "*appstate = g") THEN id ELSE 0)
        /\ initlog' = <<"version gate">> \o executed(steps, f)
        /\ fault' = (CASE f = "none" -> "none"
                       [] f \in {"malloc", "luaL_newstate"} -> "null_deref"
                       [] OTHER -> "lua_panic")
        /\ heap_g' = (IF has_g THEN "live" ELSE heap_g)
        /\ g_id' = (IF has_g THEN id ELSE g_id)
        /\ L_state' = (IF has_L THEN "open" ELSE L_state)
        /\ L_id' = (IF has_L THEN id ELSE L_id)
        /\ g_L' = (IF Occurs(done, "g->L = L")
                   THEN (IF has_L THEN id ELSE 0) ELSE g_L)
        /\ g_stackpos' =
               (IF Occurs(done, "g->stackpos")
                THEN stack_after(SubSeq(steps, 1,
                                        IndexOf(steps, "g->stackpos") - 1))
                ELSE -1)
        /\ closes' = 0
        /\ frees' = 0
        /\ lua_top' = stack_after(done)
        /\ arg' = (IF Occurs(done, "arg")
                   THEN arg_table(Len(new_argv), new_argv) ELSE NoTable)
        /\ love_exe' = (IF Occurs(done, "love._exe") THEN TRUE ELSE NoValue)
        /\ love_restart' = (IF Occurs(done, "love.restart")
                            THEN restartvalue ELSE NoValue)
        /\ co' = (IF Occurs(done, "lua_pushvalue") THEN "created" ELSE "none")
        /\ hack_argv' = (IF ran_hack THEN new_argv ELSE <<>>)
        /\ hack_heap' = (IF Occurs(done, "delete hack_argv") THEN "freed"
                         ELSE IF ran_hack THEN "live" ELSE "none")
        /\ dropfile_init' = (dropfile_init \/ reaches)
        /\ dropfilestr' = dropstr
        /\ drop_queries' = (IF runs_checkDropEvents(reaches, dropfile_init)
                            THEN drop_queries + 1 ELSE drop_queries)
        /\ hack_env' = (IF ran_hack THEN [path |-> look.path, tty |-> tty]
                        ELSE NoAnswers)
        /\ resume_status' = "none"
        /\ resume_nres' = 0
        /\ UNCHANGED quitlog

\* whether SDL_AppInit gets as far as calling get_app_arguments
runs_hack(f) ==
    Occurs(completed(bootstrap_steps(argv_hack, platform), f),
           "get_app_arguments")

\* the answers of the platform that SDL_AppInit gets to see: the bundle
\* lookup, isatty(STDIN_FILENO) and love::macos::checkDropEvents()
LookupInputs(f) ==
    IF runs_hack(f) THEN ResourceLookups(platform)
    ELSE {[path |-> EmptyString, fused |-> TRUE]}

TtyInputs(f, look) ==
    IF runs_hack(f) /\ look.path = EmptyString /\ platform = "macos"
    THEN BOOLEAN ELSE {TRUE}

DropInputs(f, look, tty) ==
    IF runs_hack(f)
       /\ runs_checkDropEvents(reaches_dropfile(platform, look.path, tty),
                               dropfile_init)
    THEN {EmptyString, S_dropped} ELSE {EmptyString}

\* the host calls SDL_AppInit at process start, and again for a restart
SDL_AppInit ==
    /\ phase \in {"start", "quit"}
    /\ cycles < MaxCycles
    /\ cycles' = cycles + 1
    /\ lastcall' = "init"
    /\ LET path == init_path(LOVE_VERSION_STRING, lib_version,
                             Len(host_argv), host_argv)
       IN  IF path # "bootstrap"
           THEN InitEarlyExit(path)
           ELSE \E f \in InitFailures :
                \E look \in LookupInputs(f) :
                    \E tty \in TtyInputs(f, look) :
                        \E drop \in DropInputs(f, look, tty) :
                            InitBootstrap(f, look, tty, drop)
    /\ UNCHANGED <<buildvars, iterates, resumes, scriptvars>>

(***************************************************************************)
(* SDL_AppIterate.                                                         *)
(***************************************************************************)
ResumeStatuses == {LUA_YIELD, LUA_OK, LUA_ERRRUN}

\* What the entry script may hand over when it ends to be restarted: nothing,
\* or a value for love.restart of the next run. It leaves the value among the
\* results of its coroutine; SDL_AppIterate reads none of them.
RestartRequests(status) ==
    IF status = LUA_OK THEN {NoValue, "payload"} ELSE {NoValue}

\* love::luax_resume(L, 0, &nres): the depth of the stack afterwards. A yield
\* or a return leaves nres values above what was there, an error its message.
luax_resume(top, status, nres) ==
    IF status = LUA_ERRRUN THEN top + 1 ELSE top + nres

\* lua_pop(L, n)
lua_pop(top, n) == top - n

\* the coroutine after a resume that ended with status
co_after(status) ==
    CASE status = LUA_YIELD -> "suspended"
      [] status = LUA_OK -> "completed"
      [] OTHER -> "failed"

\* faulty variant of iterate_step: resumes again after a yield, as a loop
\* that runs the coroutine until it is done would
iterate_step_loop(top, stackpos, is504, status, nres) ==
    LET after == luax_resume(top, status, nres)
    IN  IF status = LUA_YIELD
        THEN [top |-> luax_resume(lua_pop(after, after - stackpos),
                                  LUA_OK, 0),
              result |-> SDL_APP_SUCCESS, resumed |-> 2]
        ELSE [top |-> after, result |-> SDL_APP_SUCCESS, resumed |-> 1]

\* faulty variant of iterate_step: the yielded values are left on the stack
iterate_step_no_pop(top, stackpos, is504, status, nres) ==
    LET after == luax_resume(top, status, nres)
    IN  IF status = LUA_YIELD
        THEN [top |-> after, result |-> SDL_APP_CONTINUE, resumed |-> 1]
        ELSE [top |-> after, result |-> SDL_APP_SUCCESS, resumed |-> 1]

\* faulty variant of iterate_step: the test of the status is inverted
iterate_step_inverted(top, stackpos, is504, status, nres) ==
    LET after == luax_resume(top, status, nres)
    IN  IF status # LUA_YIELD
        THEN [top |-> after, result |-> SDL_APP_CONTINUE, resumed |-> 1]
        ELSE [top |-> after, result |-> SDL_APP_SUCCESS, resumed |-> 1]

\* the body of SDL_AppIterate: the stack depth it leaves, what it returns and
\* how many times it called luax_resume
iterate_step(top, stackpos, is504, status, nres) ==
    LET after == luax_resume(top, status, nres)
    IN  IF status = LUA_YIELD
        THEN [top |-> IF is504 THEN lua_pop(after, nres)
                      ELSE lua_pop(after, after - stackpos),
              result |-> SDL_APP_CONTINUE, resumed |-> 1]
        ELSE [top |-> after, result |-> SDL_APP_SUCCESS, resumed |-> 1]

\* the host calls SDL_AppIterate while the application asks to continue
SDL_AppIterate ==
    /\ phase = "running"
    /\ iterates < MaxIter
    /\ \E status \in ResumeStatuses, nres \in 0..MaxNres :
           LET r == iterate_step(lua_top, g_stackpos, lua504, status, nres)
           IN  /\ lua_top' = r.top
               /\ result' = r.result
               /\ resumes' = resumes + r.resumed
               /\ phase' = (IF r.result = SDL_APP_CONTINUE
                            THEN "running" ELSE "stopped")
               /\ co' = co_after(status)
               /\ resume_status' = status
               /\ resume_nres' = (IF status = LUA_ERRRUN THEN 1 ELSE nres)
               /\ restart_request' \in RestartRequests(status)
    /\ iterates' = iterates + 1
    /\ lastcall' = "iterate"
    /\ fault' = (IF heap_g # "live" \/ L_state # "open"
                 THEN "use_after_free" ELSE fault)
    /\ UNCHANGED <<buildvars, appstate, cycles, memvars, arg, love_exe,
                   love_restart, argvars, initlog, quitlog>>

(***************************************************************************)
(* SDL_AppEvent.                                                           *)
(***************************************************************************)
Events == {"SDL_EVENT_QUIT", "SDL_EVENT_KEY_DOWN"}

\* The body of SDL_AppEvent is empty: control flows off the end of a function
\* returning SDL_AppResult, so the value the host receives is indeterminate.
\* It is one of the three enumerators or a value that is none of them.
event_result(ev) ==
    {SDL_APP_CONTINUE, SDL_APP_SUCCESS, SDL_APP_FAILURE, "indeterminate"}

\* the host forwards an event while the application asks to continue; any
\* result other than SDL_APP_CONTINUE makes it shut the application down
SDL_AppEvent ==
    /\ phase = "running"
    /\ \E ev \in Events : result' \in event_result(ev)
    /\ phase' = (IF result' = SDL_APP_CONTINUE THEN "running" ELSE "stopped")
    /\ lastcall' = "event"
    /\ UNCHANGED <<buildvars, appstate, cycles, memvars, luavars, argvars,
                   logvars, scriptvars>>

(***************************************************************************)
(* SDL_AppQuit.                                                            *)
(***************************************************************************)
\* faulty variant of quit_steps: the block is freed before g->L is read
quit_steps_free_first == <<"free", "lua_close">>

\* faulty variant of quit_steps: the state block is never freed
quit_steps_no_free == <<"lua_close">>

\* the statements of SDL_AppQuit, in program order
quit_steps == <<"lua_close", "free">>

\* one statement of SDL_AppQuit on the memory m
quit_exec(m, step) ==
    IF m.fault # "none" THEN m
    ELSE IF step = "lua_close"
    THEN (IF m.heap_g # "live"
          THEN [m EXCEPT !.fault = "use_after_free"]
          ELSE IF m.L_state # "open"
          THEN [m EXCEPT !.fault = "double_close"]
          ELSE [m EXCEPT !.L_state = "closed", !.closes = @ + 1])
    ELSE (IF m.heap_g # "live"
          THEN [m EXCEPT !.fault = "double_free"]
          ELSE [m EXCEPT !.heap_g = "freed", !.frees = @ + 1])

RECURSIVE quit_run(_, _)
quit_run(m, steps) ==
    IF steps = <<>> THEN m
    ELSE quit_run(quit_exec(m, Head(steps)), Tail(steps))

\* The host calls SDL_AppQuit once before the process ends: after a callback
\* asked to stop, at any time while the application runs, and also after an
\* SDL_AppInit that did not return SDL_APP_CONTINUE (appstate is then NULL).
SDL_AppQuit ==
    /\ phase \in {"running", "stopped", "exited"}
    /\ lastcall' = "quit"
    /\ IF appstate = 0
       THEN /\ phase' = "crashed"
            /\ fault' = "null_deref"
            /\ quitlog' = <<"lua_close">>
            /\ UNCHANGED memvars
       ELSE LET m == quit_run([heap_g |-> heap_g, L_state |-> L_state,
                               closes |-> closes, frees |-> frees,
                               fault |-> "none"], quit_steps)
            IN  /\ phase' = (IF m.fault = "none" THEN "quit" ELSE "crashed")
                /\ fault' = m.fault
                /\ quitlog' = quit_steps
                /\ heap_g' = m.heap_g
                /\ L_state' = m.L_state
                /\ closes' = m.closes
                /\ frees' = m.frees
                /\ UNCHANGED <<g_id, g_L, g_stackpos, L_id>>
    /\ UNCHANGED <<buildvars, appstate, cycles, result, luavars, argvars,
                   initlog, iterates, resumes, resume_status, resume_nres,
                   scriptvars>>

Next ==
    \/ SDL_AppInit
    \/ SDL_AppIterate
    \/ SDL_AppEvent
    \/ SDL_AppQuit

Spec == Init /\ [][Next]_vars

(***************************************************************************)
(* The argument handling of SDL_AppInit over every argument vector: the    *)
(* host only starts, shuts down and restarts the application.              *)
(* LUA_VERSION_NUM is read by SDL_AppIterate alone.                        *)
(***************************************************************************)
ArgInit == Start(HostArgvs) /\ lua504 = FALSE

ArgNext ==
    \/ SDL_AppInit
    \/ SDL_AppQuit

ArgSpec == ArgInit /\ [][ArgNext]_vars

(***************************************************************************)
(* Properties.                                                             *)
(***************************************************************************)
\* the first argument after the executable name is --version or --help
FirstArgIsFlag ==
    Len(host_argv) > 1 /\ host_argv[2] \in {S_version, S_help}

\* C1: when the compiled-in version string differs from the one the library
\* reports, SDL_AppInit returns SDL_APP_FAILURE having done nothing else: no
\* state block, no interpreter, no run of get_app_arguments, *appstate not
\* written; this for every argument vector.
C1_MismatchFailsFirst ==
    (lastcall = "init" /\ lib_version # LOVE_VERSION_STRING) =>
        /\ result = SDL_APP_FAILURE
        /\ initlog = <<"version gate", "printf mismatch">>
        /\ heap_g = "none"
        /\ L_state = "none"
        /\ hack_argv = <<>>
        /\ hack_heap = "none"
        /\ drop_queries = 0
        /\ arg = NoTable
        /\ appstate = 0

\* C1: a mismatching library meets an invocation that asks for the version
C1_Witness ==
    /\ lastcall = "init"
    /\ lib_version # LOVE_VERSION_STRING
    /\ result = SDL_APP_FAILURE
    /\ FirstArgIsFlag

\* C2 as stated: with --version or --help as first argument SDL_AppInit
\* creates no interpreter and returns SDL_APP_SUCCESS, whatever the outcome
\* of the version comparison.
C2_FlagAlwaysSucceeds ==
    (lastcall = "init" /\ FirstArgIsFlag) =>
        /\ result = SDL_APP_SUCCESS
        /\ L_state = "none"

\* C2, amended: with --version or --help as first argument SDL_AppInit never
\* creates an interpreter; it returns SDL_APP_SUCCESS when the version
\* strings are equal and SDL_APP_FAILURE when they differ.
C2_FlagNeverBoots ==
    (lastcall = "init" /\ FirstArgIsFlag) =>
        /\ L_state = "none"
        /\ heap_g = "none"
        /\ ~Occurs(initlog, "luaL_newstate")
        /\ result = (IF lib_version = LOVE_VERSION_STRING
                     THEN SDL_APP_SUCCESS ELSE SDL_APP_FAILURE)

\* C2: --help answered by a matching library
C2_Witness ==
    /\ lastcall = "init"
    /\ Len(host_argv) > 1
    /\ host_argv[2] = S_help
    /\ lib_version = LOVE_VERSION_STRING
    /\ result = SDL_APP_SUCCESS
    /\ initlog = <<"version gate", "print_usage">>

\* C3: when the resumed context raises an unhandled error, SDL_AppIterate
\* returns SDL_APP_FAILURE, not the result of a normal completion.
C3_ErrorReportsFailure ==
    (lastcall = "iterate" /\ resume_status = LUA_ERRRUN) =>
        result = SDL_APP_FAILURE

\* C4: after any sequence of callbacks the number of luax_resume calls equals
\* the number of SDL_AppIterate calls.
C4_OneResumePerIterate == resumes = iterates

\* C4: two iterate calls, a restart in between or after
C4_Witness ==
    /\ iterates = 2
    /\ resumes = 2
    /\ cycles = 2

\* C5: SDL_AppIterate returns SDL_APP_CONTINUE if and only if its resume
\* yielded, and SDL_APP_SUCCESS when the context ran to completion.
C5_ResultFollowsResume ==
    lastcall = "iterate" =>
        /\ (result = SDL_APP_CONTINUE) <=> (resume_status = LUA_YIELD)
        /\ (resume_status = LUA_OK) => (result = SDL_APP_SUCCESS)

\* C5: an iterate whose resume ran the coroutine to its end
C5_Witness ==
    /\ lastcall = "iterate"
    /\ resume_status = LUA_OK
    /\ co = "completed"
    /\ result = SDL_APP_SUCCESS

\* C6: SDL_AppQuit after a successful SDL_AppInit closes the interpreter
\* exactly once and then frees the state block exactly once, and no callback
\* reads a freed block or a closed interpreter.
C6_QuitReleasesOnce ==
    /\ fault \notin {"use_after_free", "double_close", "double_free"}
    /\ phase = "quit" =>
          /\ quitlog = <<"lua_close", "free">>
          /\ closes = 1
          /\ frees = 1
          /\ L_state = "closed"
          /\ heap_g = "freed"

\* C6: quit delivered between two iterate calls (the last iterate asked to
\* continue)
C6_Witness ==
    /\ phase = "quit"
    /\ iterates = 1
    /\ resume_status = LUA_YIELD
    /\ result = SDL_APP_CONTINUE

\* C7: between host callbacks a state block is allocated if and only if the
\* interpreter is live, and then g->L is that interpreter and *appstate the
\* block.
C7_StateIffInterpreter ==
    phase # "crashed" =>
        /\ (heap_g = "live") <=> (L_state = "open")
        /\ (heap_g = "live") => (g_L = L_id /\ g_L # 0 /\ appstate = g_id)

\* C7: the application runs again after a restart
C7_Witness ==
    /\ cycles = 2
    /\ phase = "running"
    /\ heap_g = "live"
    /\ L_state = "open"
    /\ g_L = 2

\* C8: SDL_AppEvent returns a defined result of the continue class.
C8_EventContinues ==
    lastcall = "event" => result = SDL_APP_CONTINUE

\* the vector SDL_AppInit builds the global "arg" from
BootArgv == IF argv_hack THEN hack_argv ELSE host_argv

\* C9: the table "arg" holds arg[i] = argv[i] for 1 <= i < n and no other
\* positive index, the marker "embedded boot.lua" at a non-positive index,
\* and argv[0] is not stored at index 0.
C9_ArgTable ==
    arg # NoTable =>
        LET n == Len(BootArgv)
        IN  /\ n >= 1
            /\ {i \in DOMAIN arg : i > 0} = 1..(n - 1)
            /\ \A i \in 1..(n - 1) : arg[i] = BootArgv[i + 1]
            /\ \E i \in DOMAIN arg : i <= 0 /\ arg[i] = S_embedded
            /\ 0 \notin DOMAIN arg

\* C9: a rewritten vector of four arguments installed as "arg"
C9_Witness ==
    /\ arg # NoTable
    /\ argv_hack
    /\ Len(hack_argv) = 4
    /\ hack_argv # host_argv
    /\ arg[3] = hack_argv[4]

\* an argument starting with -psn_
HasPsnPrefix(s) == Len(s) >= 5 /\ SubSeq(s, 1, 5) = S_psn_prefix

\* the vector without its -psn_ user arguments
NoiseFiltered(v) ==
    <<v[1]>> \o SelectSeq(Tail(v), LAMBDA a : ~HasPsnPrefix(a))

\* what get_app_arguments made of the host's vector satisfies C10
C10_Shape ==
    hack_argv # <<>> =>
        LET f == NoiseFiltered(host_argv)
            k == Len(hack_argv) - Len(f)
        IN  /\ hack_argv[1] = host_argv[1]
            /\ k \in {0, 1, 2}
            /\ SubSeq(hack_argv, k + 2, Len(hack_argv)) = Tail(f)
            /\ k = 1 => hack_argv[2] \in {S_resources, S_dropped}
            /\ k = 2 => hack_argv[2] = S_resources /\ hack_argv[3] = S_fused

\* C10: get_app_arguments keeps argv[0] as element 0; an insertion makes the
\* output 1 or 2 elements longer than the noise-filtered input, the inserted
\* elements follow element 0 and the user arguments keep their order; the
\* host's vector is not modified.
C10_Preprocessor ==
    /\ []C10_Shape
    /\ [][host_argv' = host_argv]_vars

\* C10: the bundle path and --fused inserted in front of a user argument,
\* a -psn_ argument dropped
C10_Witness ==
    /\ hack_argv = <<S_love, S_resources, S_fused, S_game>>
    /\ host_argv = <<S_love, S_psn, S_game>>

\* C11: whenever SDL_AppInit ran get_app_arguments and returned, the
\* rewritten vector has been released, after its values were copied into the
\* table "arg"; this on every platform configuration.
C11_VectorReleased ==
    (lastcall = "init" /\ result = SDL_APP_CONTINUE
     /\ Occurs(initlog, "get_app_arguments")) =>
        /\ hack_heap = "freed"
        /\ IndexOf(initlog, "arg") < IndexOf(initlog, "delete hack_argv")

\* C12: a restart value populated before a restart is installed as
\* love.restart by the next SDL_AppInit.
C12_RestartDelivered ==
    (lastcall = "init" /\ result = SDL_APP_CONTINUE /\ cycles >= 2) =>
        love_restart = restart_request

\* C13: under a host that stops calling SDL_AppIterate once it reported
\* "stop", a completed or failed coroutine is never resumed, and the only
\* callback delivered while it sits in its interpreter is SDL_AppQuit.
C13_NoResumeWhenDone ==
    [][(co \in {"completed", "failed"} \/ phase = "stopped") =>
          (/\ resumes' = resumes
           /\ iterates' = iterates
           /\ (L_state = "open") => (lastcall' = "quit"))]_vars

\* C13: a coroutine that failed has been torn down by quit
C13_Witness ==
    /\ co = "failed"
    /\ phase = "quit"
    /\ lastcall = "quit"
    /\ L_state = "closed"

\* the last SDL_AppInit got NULL from malloc or from luaL_newstate: the last
\* statement it reached is the first use of the missing g or L
AllocationFailed ==
    /\ lastcall = "init"
    /\ Len(initlog) > 1
    /\ initlog[Len(initlog)] \in {"g->L = L", "luaL_openlibs"}

\* C14: when the state block or the interpreter cannot be allocated,
\* SDL_AppInit returns SDL_APP_FAILURE without using the missing resource,
\* without creating a coroutine and without writing *appstate.
C14_AllocationFailureAborts ==
    AllocationFailed =>
        /\ result = SDL_APP_FAILURE
        /\ fault = "none"
        /\ co = "none"
        /\ appstate = 0

\* the arguments of v after element 0 that the host passed (not the inserted
\* bundle path, --fused or dropped file)
UserArgs(v) == SelectSeq(Tail(v), LAMBDA a : a \in UserStrings)

\* C15 as stated: a -psn_ argument at index 0 or at an index >= 2 is kept in
\* the output of get_app_arguments.
C15_LaterPsnKept ==
    hack_argv # <<>> =>
        \A i \in 1..Len(host_argv) :
            (i # 2 /\ HasPsnPrefix(host_argv[i])) =>
                \E j \in 1..Len(hack_argv) : hack_argv[j] = host_argv[i]

\* C15, amended: get_app_arguments drops every argument with the prefix
\* "-psn_" at an index >= 1 and no other argument; an argument at index 0 is
\* kept whatever it is.
C15_EveryPsnDropped ==
    hack_argv # <<>> =>
        /\ hack_argv[1] = host_argv[1]
        /\ \A j \in 2..Len(hack_argv) : ~HasPsnPrefix(hack_argv[j])
        /\ UserArgs(hack_argv)
               = SelectSeq(Tail(host_argv), LAMBDA a : ~HasPsnPrefix(a))

\* C15: a -psn_ argument in last place is dropped, the one at index 0 kept
C15_Witness ==
    /\ host_argv = <<S_psn, S_game, S_psn>>
    /\ hack_argv = <<S_psn, S_game>>

\* the bootstrap steps in the order C16 requires
RequiredOrder ==
    <<"luaL_newstate", "luaL_openlibs", "preload love.jitsetup",
      "require love.jitsetup", "get_app_arguments", "preload love", "arg",
      "require love", "love._exe", "love.restart", "clear restartvalue",
      "require love.boot", "lua_newthread", "g->stackpos">>

\* C16: on every path of SDL_AppInit that reaches the bootstrap, a step is
\* only reached after every step required before it (get_app_arguments where
\* it is compiled in) has been reached, in the required order.
C16_BootstrapOrder ==
    \A j \in 1..Len(RequiredOrder) :
        Occurs(initlog, RequiredOrder[j]) =>
            \A i \in 1..(j - 1) :
                (RequiredOrder[i] # "get_app_arguments" \/ argv_hack) =>
                    /\ Occurs(initlog, RequiredOrder[i])
                    /\ IndexOf(initlog, RequiredOrder[i])
                           < IndexOf(initlog, RequiredOrder[j])

\* C16: a complete bootstrap that ran get_app_arguments
C16_Witness ==
    /\ lastcall = "init"
    /\ result = SDL_APP_CONTINUE
    /\ Occurs(initlog, "get_app_arguments")
    /\ Occurs(initlog, "g->stackpos")
    /\ co = "created"

\* while the application runs, the stack is as deep as the marker says, and
\* the marker was taken right after lua_newthread and lua_pushvalue
C17_StackAtMarker ==
    /\ phase = "running" => (lua_top = g_stackpos /\ g_stackpos >= 0)
    /\ Occurs(initlog, "g->stackpos") =>
          /\ Occurs(initlog, "lua_newthread")
          /\ IndexOf(initlog, "g->stackpos")
                 = IndexOf(initlog, "lua_newthread") + 2
          /\ initlog[IndexOf(initlog, "lua_newthread") + 1] = "lua_pushvalue"

TookDropBranch ==
    /\ Occurs(initlog, "get_app_arguments")
    /\ platform = "macos"
    /\ hack_env.path = EmptyString
    /\ ~hack_env.tty

\* checkDropEvents() ran at most once, and dropfilestr holds its result
C18_QueriedOnce ==
    /\ drop_queries <= 1
    /\ dropfile_init <=> (drop_queries = 1)
    /\ ~dropfile_init => dropfilestr = EmptyString

\* a step queries only from the dropped-file branch, never a second time, and
\* an init that takes the branch inserts the cached path as argument 1
C18_Step ==
    /\ (drop_queries' # drop_queries) => (lastcall' = "init" /\ TookDropBranch')
    /\ dropfile_init =>
          (dropfilestr' = dropfilestr /\ drop_queries' = drop_queries)
    /\ (cycles' # cycles /\ TookDropBranch' /\ dropfilestr' # EmptyString) =>
          (Len(hack_argv') >= 2 /\ hack_argv'[2] = dropfilestr')

\* C18: across init/quit cycles checkDropEvents is executed at most once;
\* every later init that takes the dropped-file branch reuses the first
\* result and inserts it as first user argument when it is non-empty; the
\* query is only made when no bundle path was found and standard input is not
\* a terminal.
C18_DropFileCached ==
    /\ []C18_QueriedOnce
    /\ [][C18_Step]_vars

\* C18: a restarted application that took the dropped-file branch, with one
\* query in the process and its path inserted
C18_Witness ==
    /\ cycles = 2
    /\ lastcall = "init"
    /\ TookDropBranch
    /\ drop_queries = 1
    /\ Len(hack_argv) >= 2
    /\ hack_argv[2] = S_dropped

\* SDL_AppInit left through one of the two flag exits
TookFlagExit ==
    /\ result = SDL_APP_SUCCESS
    /\ initlog \in {<<"version gate", "printf version">>,
                    <<"version gate", "print_usage">>}

\* SDL_AppInit went on to the bootstrap: the state block was requested
EnteredBootstrap ==
    /\ Len(initlog) > 1
    /\ initlog[2] = "malloc"

\* C19 as stated: SDL_AppInit takes the early exit exactly when the raw
\* vector has more than one element and element 1 is --version or --help;
\* every other invocation leads to the bootstrap.
C19_FlagDecidesAlone ==
    lastcall = "init" =>
        /\ TookFlagExit <=> FirstArgIsFlag
        /\ ~FirstArgIsFlag => EnteredBootstrap

\* C19, amended: once the version strings compare equal, SDL_AppInit takes
\* the early exit exactly when the raw vector has more than one element and
\* element 1 is --version or --help; every other invocation, the flags at a
\* later position included, enters the bootstrap, whatever vector
\* get_app_arguments builds.  When the strings differ neither happens.
C19_FlagDecidesAfterGate ==
    lastcall = "init" =>
        /\ (lib_version = LOVE_VERSION_STRING) =>
              /\ TookFlagExit <=> FirstArgIsFlag
              /\ ~FirstArgIsFlag => (EnteredBootstrap /\ ~TookFlagExit)
        /\ (lib_version # LOVE_VERSION_STRING) =>
              (~TookFlagExit /\ ~EnteredBootstrap)

\* C19: --version behind a -psn_ argument: the rewritten vector has it as
\* element 1, and the application is booted all the same
C19_Witness ==
    /\ lastcall = "init"
    /\ host_argv = <<S_love, S_psn, S_version>>
    /\ hack_argv = <<S_love, S_version>>
    /\ EnteredBootstrap
    /\ result = SDL_APP_CONTINUE

\* C20: SDL_AppInit writes *appstate exactly when it returns
\* SDL_APP_CONTINUE, and then to a state block with an open interpreter and
\* its stack marker set; an SDL_AppQuit that follows an SDL_AppInit which did
\* not continue receives no state block and dereferences none.
C20_StateOnlyOnContinue ==
    /\ lastcall = "init" =>
          /\ (appstate # 0) <=> (result = SDL_APP_CONTINUE)
          /\ (result = SDL_APP_CONTINUE) =>
                /\ appstate = g_id
                /\ heap_g = "live"
                /\ g_L = L_id
                /\ L_state = "open"
                /\ g_stackpos = lua_top
    /\ lastcall = "quit" => fault # "null_deref"

=============================================================================
